---- MODULE Spec2Model ----
(***************************************************************************)
(* hammertalk: push-to-talk dictation daemon.                              *)
(* Two threads: the control thread (main: startup, the signal loop, the    *)
(* stop transition with its blocking transcription, shutdown) and the      *)
(* audio callback thread (the closure built in record_audio).              *)
(***************************************************************************)
EXTENDS Integers, Sequences, FiniteSets, TLC

\* ------------------------------------------------------------- constants
SAMPLE_RATE == 16000

\* ---------------------------------------------------------------- bounds
\* frames in one batch handed to the audio callback
MaxBatch == 4
\* samples the capture buffer may hold before the model stops delivering batches
MaxBuf == 4
\* signals that may be pending (delivered, not yet consumed) at once
MaxPending == 1
\* samples in the input of a library call
MaxSamples == 17
\* channels of a to_mono call
MaxChannels == 3

VARIABLES
    pc,              \* control thread: the statement of main it is at
    sig,             \* main: the signal the loop body is handling ("none" between iterations)
    pending,         \* signals delivered to the process and not yet yielded by signals.forever()
    RECORDING,       \* static RECORDING
    STOP_REQUESTED,  \* static STOP_REQUESTED
    SHUTDOWN,        \* static SHUTDOWN
    audio_buffer,    \* the Vec<f32> inside Arc<Mutex<..>>
    lock,            \* holder of the buffer mutex: "free", "main" or "callback"
    pid_file,        \* the marker file: "absent", "empty" (created, nothing written) or "written"
    exit_code,       \* process exit status, -1 while running
    stream,          \* "none", "built" (paused), "playing" or "dropped"
    sample_rate,     \* record_audio: negotiated rate (0 before setup)
    channels,        \* record_audio: channel count (0 before setup)
    samples,         \* main: the snapshot cloned at stop
    result,          \* main: what engine.transcribe_samples returned
    text,            \* the argument of type_text
    cb_pc,           \* callback thread: "idle", "load", "lock", "append"
    data,            \* callback: the interleaved batch it was invoked with
    cb_i,            \* callback: frames of the batch already looped over
    cb_base,         \* history: buffer length when the callback took the lock
    cb_late,         \* history: the callback in flight saw Recording before a stop whose snapshot is already read
    buffer_late,     \* history: per sample of audio_buffer, whether a late callback appended it
    samples_late,    \* history: the same for the snapshot
    outcome,         \* history: how the last completed iteration of the signal loop ended
    cb_stale,        \* history: the callback in flight tested the flag before the last clear
    call,            \* library: the function called and its arguments
    ret              \* library: what the call returned

vars == <<pc, sig, pending, RECORDING, STOP_REQUESTED, SHUTDOWN, audio_buffer, lock,
          pid_file, exit_code, stream, sample_rate, channels, samples, result, text,
          cb_pc, data, cb_i, cb_base, cb_late, buffer_late, samples_late, outcome,
          cb_stale, call, ret>>

ctl_vars == <<pc, sig, RECORDING, STOP_REQUESTED, SHUTDOWN, pid_file, exit_code, stream,
              sample_rate, channels, samples, result, text, samples_late, outcome>>
cb_vars == <<cb_pc, data, cb_i, cb_base, cb_late>>
buf_vars == <<audio_buffer, buffer_late, lock>>
lib_vars == <<call, ret>>
daemon_vars == <<pending, ctl_vars, cb_vars, buf_vars, cb_stale>>

\* ------------------------------------------------------------ signals
SIGUSR1 == "SIGUSR1"
SIGUSR2 == "SIGUSR2"
SIGTERM == "SIGTERM"
SIGINT == "SIGINT"
Signals == {SIGUSR1, SIGUSR2, SIGTERM, SIGINT}

\* ------------------------------------------------------- external inputs
\* texts the engine may return, as character sequences
Whitespace == {" ", "\n"}
EngineTexts == { <<>>, <<" ">>, <<"a">>, <<" ", "a", "\n">> }
EngineResults ==
    { [ok |-> TRUE, text |-> t] : t \in EngineTexts } \cup { [ok |-> FALSE, text |-> <<>>] }
NoResult == [ok |-> FALSE, text |-> <<"-">>]

\* exit of the ydotool subprocess: success, non-zero status, or failure to spawn
YdotoolResults == {"success", "nonzero", "spawn_error"}

\* a batch of n frames: frame i (from 0) carries v + i + 2c on channel c, so its
\* mean is v + i + ch - 1 and frames of one batch are told apart
Batch(n, v, ch) == [j \in 1..(n * ch) |-> v + ((j - 1) \div ch) + 2 * ((j - 1) % ch)]
Batches(ch) == { Batch(n, v, ch) : n \in 1..MaxBatch, v \in 0..1 }

\* ------------------------------------------------------------ helpers
RECURSIVE Sum(_)
Sum(s) == IF s = <<>> THEN 0 ELSE Head(s) + Sum(Tail(s))

NumChunks(d, ch) == (Len(d) + ch - 1) \div ch
\* data.chunks(channels): the i-th chunk, i from 0; the last one may be short
Chunk(d, ch, i) == SubSeq(d, i * ch + 1, IF (i + 1) * ch < Len(d) THEN (i + 1) * ch ELSE Len(d))

\* variant: the sum of the chunk is not divided
Downmix_Sum(chunk, ch) == Sum(chunk)
\* chunk.iter().sum::<f32>() / channels as f32, exact on the modelled samples
\* (integers whose chunk sums are multiples of channels)
Downmix(chunk, ch) == Sum(chunk) \div ch

\* lib.rs to_mono(samples, channels)
to_mono(input, ch) ==
    [k \in 1..NumChunks(input, ch) |-> Downmix(Chunk(input, ch, k - 1), ch)]

\* str::trim
RECURSIVE TrimStart(_)
TrimStart(s) == IF s # <<>> /\ Head(s) \in Whitespace THEN TrimStart(Tail(s)) ELSE s
RECURSIVE TrimEnd(_)
TrimEnd(s) ==
    IF s # <<>> /\ s[Len(s)] \in Whitespace THEN TrimEnd(SubSeq(s, 1, Len(s) - 1)) ELSE s
\* variant: the text is tested and passed on untrimmed
Trim_None(s) == s
Trim(s) == TrimEnd(TrimStart(s))

\* ------------------------------------------- binary floating point
\* f32 and f64 arithmetic rounds every result to 24 or 53 significant bits
\* (nearest, ties to even). A mantissa is a natural kept as its digits in base
\* 2^15, least significant first and without leading zeros, since 53 bits do not
\* fit a machine integer of the model; a float is [m, e], worth m * 2^e.
F32 == 24
F64 == 53
DigitBits == 15
Base == 2^DigitBits

\* the digits of a machine integer
Digits(n) ==
    IF n = 0 THEN <<>>
    ELSE IF n < Base THEN <<n>>
    ELSE IF n \div Base < Base THEN <<n % Base, n \div Base>>
    ELSE <<n % Base, (n \div Base) % Base, (n \div Base) \div Base>>

RECURSIVE Val(_)
Val(a) == IF a = <<>> THEN 0 ELSE Head(a) + Base * Val(Tail(a))

\* position of the most significant digit that is not 0, 0 if none
Top(a) ==
    IF \A j \in 1..Len(a) : a[j] = 0 THEN 0
    ELSE CHOOSE j \in 1..Len(a) : a[j] # 0 /\ \A i \in (j + 1)..Len(a) : a[i] = 0

Strip(a) == SubSeq(a, 1, Top(a))

DigitAt(a, j) == IF 1 <= j /\ j <= Len(a) THEN a[j] ELSE 0

\* the number of bits of a machine integer, and of a mantissa
BitLen(n) == IF n = 0 THEN 0 ELSE CHOOSE k \in 1..n : 2^(k - 1) <= n /\ n < 2^k
BigBitLen(a) == IF a = <<>> THEN 0 ELSE (Len(a) - 1) * DigitBits + BitLen(a[Len(a)])

\* bit k of a, k from 0
BitOf(a, k) == (DigitAt(a, k \div DigitBits + 1) \div 2^(k % DigitBits)) % 2

Less(a, b) ==
    \/ Len(a) < Len(b)
    \/ /\ Len(a) = Len(b)
       /\ \E k \in 1..Len(a) : a[k] < b[k] /\ \A j \in (k + 1)..Len(a) : a[j] = b[j]

\* digits k and up of a - b - borrow, for a >= b
RECURSIVE SubFrom(_, _, _, _)
SubFrom(a, b, k, borrow) ==
    IF k > Len(a) THEN <<>>
    ELSE LET d == a[k] - DigitAt(b, k) - borrow
         IN  <<(d + Base) % Base>> \o SubFrom(a, b, k + 1, IF d < 0 THEN 1 ELSE 0)

Sub(a, b) == Strip(SubFrom(a, b, 1, 0))

\* digits k and up of a * n + carry, n a machine integer below 2^16
RECURSIVE MulFrom(_, _, _, _)
MulFrom(a, n, k, carry) ==
    IF k > Len(a) THEN Digits(carry)
    ELSE LET v == a[k] * n + carry
         IN  <<v % Base>> \o MulFrom(a, n, k + 1, v \div Base)

MulAdd(a, n, c) == Strip(MulFrom(a, n, 1, c))

\* a * 2^k and floor(a / 2^k); k <= 0 leaves a as it is
Shl(a, k) ==
    IF a = <<>> \/ k <= 0 THEN a
    ELSE LET q == k \div DigitBits
             s == k % DigitBits
         IN  Strip([j \in 1..(Len(a) + q + 1) |->
                       ((DigitAt(a, j - q) * 2^s) % Base)
                           + (DigitAt(a, j - q - 1) \div 2^(DigitBits - s))])
Shr(a, k) ==
    IF k <= 0 THEN a
    ELSE LET q == k \div DigitBits
             s == k % DigitBits
         IN  Strip([j \in 1..(Len(a) - q) |->
                       (DigitAt(a, j + q) \div 2^s)
                           + ((DigitAt(a, j + q + 1) % 2^s) * 2^(DigitBits - s))])

\* the digits of a natural given by its bits, least significant first
RECURSIVE BitsVal(_)
BitsVal(bits) == IF bits = <<>> THEN 0 ELSE Head(bits) + 2 * BitsVal(Tail(bits))
FromBits(bits) ==
    Strip([j \in 1..((Len(bits) + DigitBits - 1) \div DigitBits) |->
              BitsVal(SubSeq(bits, (j - 1) * DigitBits + 1,
                             IF j * DigitBits < Len(bits) THEN j * DigitBits ELSE Len(bits)))])

\* long division over bits hi down to lo of a, entered with remainder r: the
\* quotient bits and the remainder; the upper half is divided first and its
\* remainder enters the lower half
RECURSIVE DivRange(_, _, _, _, _)
DivRange(a, b, r, lo, hi) ==
    IF lo = hi
    THEN LET r1 == MulAdd(r, 2, BitOf(a, lo))
         IN  IF Less(r1, b) THEN [q |-> <<0>>, r |-> r1]
             ELSE [q |-> <<1>>, r |-> Sub(r1, b)]
    ELSE LET mid == (lo + hi) \div 2
             upper == DivRange(a, b, r, mid + 1, hi)
         IN  IF upper.r = <<>>
             THEN LET lower == DivRange(a, b, <<>>, lo, mid)
                  IN  [q |-> lower.q \o upper.q, r |-> lower.r]
             ELSE LET lower == DivRange(a, b, upper.r, lo, mid)
                  IN  [q |-> lower.q \o upper.q, r |-> lower.r]

DivMod(a, b) ==
    IF a = <<>> THEN [q |-> <<>>, r |-> <<>>]
    ELSE LET d == DivRange(a, b, <<>>, 0, BigBitLen(a) - 1) IN [q |-> FromBits(d.q), r |-> d.r]

\* floor and remainder of a * 2^k / b
Quot(a, b, k) == DivMod(Shl(a, k), Shl(b, -k))

\* q + 1 when up, and its exponent moved when that takes more than p bits
RoundUp(q, up, e, p) ==
    LET m == IF up THEN MulAdd(q, 1, 1) ELSE q
    IN  IF BigBitLen(m) > p THEN [m |-> Shr(m, 1), e |-> e + 1] ELSE [m |-> m, e |-> e]

\* a / b rounded to p significant bits
RoundDiv(a, b, p) ==
    IF a = <<>> THEN [m |-> <<>>, e |-> 0]
    ELSE LET k0 == p - (BigBitLen(a) - BigBitLen(b))
             k == IF BigBitLen(Quot(a, b, k0).q) > p THEN k0 - 1 ELSE k0
             d == Quot(a, b, k)
             twice == MulAdd(d.r, 2, 0)
             den == Shl(b, -k)
         IN  RoundUp(d.q, Less(den, twice) \/ (twice = den /\ BitOf(d.q, 0) = 1), -k, p)

\* a rounded to p significant bits
Round(a, p) ==
    LET k == BigBitLen(a) - p
        q == Shr(a, k)
    IN  IF k <= 0 THEN [m |-> a, e |-> 0]
        ELSE RoundUp(q, BitOf(a, k - 1) = 1
                            /\ (BitOf(q, 0) = 1 \/ Shl(Shr(a, k - 1), k - 1) # a), k, p)

One == <<1>>

\* n as f32 / n as f64
FromNat(n, p) == Round(Digits(n), p)

\* x / y
FDiv(x, y, p) ==
    LET r == RoundDiv(x.m, y.m, p) IN [m |-> r.m, e |-> r.e + x.e - y.e]

\* x * y for y = n as float, n a machine integer below 2^16 (held exactly)
FMulNat(x, n, p) ==
    LET r == Round(MulAdd(x.m, n, 0), p) IN [m |-> r.m, e |-> r.e + x.e]

MinOf(a, b) == IF a < b THEN a ELSE b

\* x < y
FLess(x, y) ==
    LET e == MinOf(x.e, y.e) IN Less(Shl(x.m, x.e - e), Shl(y.m, y.e - e))

\* (x - y).abs()
FAbsDiff(x, y, p) ==
    LET e == MinOf(x.e, y.e)
        xm == Shl(x.m, x.e - e)
        ym == Shl(y.m, y.e - e)
        r == Round(IF Less(xm, ym) THEN Sub(ym, xm) ELSE Sub(xm, ym), p)
    IN  [m |-> r.m, e |-> r.e + e]

\* x as usize (truncation), and x.ceil() as usize
Trunc(x) == IF x.e >= 0 THEN Val(Shl(x.m, x.e)) ELSE Val(Shr(x.m, -x.e))
Ceil(x) ==
    IF x.e >= 0 THEN Trunc(x)
    ELSE Trunc(x) + (IF Shl(Shr(x.m, -x.e), -x.e) # x.m THEN 1 ELSE 0)

\* ------------------------------------------------- rate conversion
\* the literal 0.001 as an f32
Tolerance == RoundDiv(One, Digits(1000), F32)

\* (ratio - 1.0).abs() > 0.001
ExceedsTolerance(ratio) == FLess(Tolerance, FAbsDiff(ratio, FromNat(1, F32), F32))

\* lib.rs needs_resample(source_rate, target_rate)
needs_resample(source_rate, target_rate) ==
    ExceedsTolerance(FDiv(FromNat(source_rate, F32), FromNat(target_rate, F32), F32))

\* lib.rs resample(samples, source_rate, target_rate); the 0.0 of unwrap_or is 0
resample(input, source_rate, target_rate) ==
    IF source_rate = target_rate THEN input
    ELSE LET ratio == FDiv(FromNat(source_rate, F64), FromNat(target_rate, F64), F64)
             output_len == Ceil(FDiv(FromNat(Len(input), F64), ratio, F64))
         IN  [i1 \in 1..output_len |->
                 LET src_idx == Trunc(FMulNat(ratio, i1 - 1, F64))
                 IN  IF src_idx < Len(input) THEN input[src_idx + 1] ELSE 0]

\* ---------------------------------------------------- format negotiation
\* a u32 as its two 16-bit halves
U32(n) == [hi |-> n \div 2^16, lo |-> n % 2^16]
U32Max == [hi |-> 2^16 - 1, lo |-> 2^16 - 1]
U32Less(a, b) == a.hi < b.hi \/ (a.hi = b.hi /\ a.lo < b.lo)
U32Leq(a, b) == ~U32Less(b, a)

\* a u32 below 2^31 as a number
U32Val(a) == a.hi * 2^16 + a.lo

\* `as i32`: the same 32 bits read as two's complement
AsI32(a) == IF a.hi < 2^15 THEN U32Val(a) ELSE (a.hi - 2^16) * 2^16 + a.lo

\* `as f32`
U32AsF32(a) ==
    Round(Strip(<<a.lo % Base, (a.lo \div Base) + 2 * (a.hi % 2^14), a.hi \div 2^14>>), F32)

\* a SupportedStreamConfigRange
Config(format, min, max, ch) == [format |-> format, min |-> min, max |-> max, channels |-> ch]

\* SAMPLE_RATE >= min && SAMPLE_RATE <= max
InRange(c) == U32Leq(c.min, U32(SAMPLE_RATE)) /\ U32Leq(U32(SAMPLE_RATE), c.max)

\* i32::abs
AbsI32(x) == IF x < 0 THEN -x ELSE x

\* the key of min_by_key
Key(c) == IF InRange(c) THEN 0 ELSE AbsI32(SAMPLE_RATE - AsI32(c.max))

\* .filter(|c| c.sample_format() == SampleFormat::F32)
IsF32(c) == c.format = "F32"

\* Iterator::min_by_key: the first of the elements with the least key
MinByKey(s) ==
    s[CHOOSE k \in DOMAIN s :
         /\ \A j \in DOMAIN s : Key(s[k]) <= Key(s[j])
         /\ \A j \in 1..(k - 1) : Key(s[j]) # Key(s[k])]

NegotiationError == [ok |-> FALSE]

\* record_audio from the configuration list to needs_resample
Negotiate(supported_configs) ==
    LET floats == SelectSeq(supported_configs, IsF32)
    IN  IF floats = <<>> THEN NegotiationError
        ELSE LET config == MinByKey(floats)
                 rate == IF InRange(config) THEN U32(SAMPLE_RATE) ELSE config.max
             IN  [ok |-> TRUE,
                  config |-> config,
                  sample_rate |-> rate,
                  channels |-> config.channels,
                  needs_resample |->
                      ExceedsTolerance(FDiv(U32AsF32(rate), FromNat(SAMPLE_RATE, F32), F32))]

\* the configuration lists of the input devices the daemon is run with
Devices ==
    { << Config("I16", U32(8000), U32(48000), 2), Config("F32", U32(8000), U32(48000), 1) >>,
      << Config("F32", U32(96000), U32(96000), 2), Config("F32", U32(48000), U32(48000), 2) >>,
      << Config("F32", U32(8000), U32(8000), 1) >>,
      << Config("I16", U32(16000), U32(16000), 1) >> }

\* (rate, channels) pairs record_audio negotiates with these devices
DeviceConfigs ==
    { [rate |-> U32Val(n.sample_rate), ch |-> n.channels] :
        n \in { Negotiate(d) : d \in Devices } \ {NegotiationError} }

\* the rates record_audio may negotiate
Rates == { cfg.rate : cfg \in DeviceConfigs }

\* resample_ratio = sample_rate as f32 / SAMPLE_RATE as f32
resample_ratio(rate) == FDiv(FromNat(rate, F32), FromNat(SAMPLE_RATE, F32), F32)

\* needs_resample = (resample_ratio - 1.0).abs() > 0.001, per negotiated rate
NeedsResampleOf == [rate \in Rates |-> ExceedsTolerance(resample_ratio(rate))]
NeedsResample(rate) == NeedsResampleOf[rate]

\* (i as f32 / resample_ratio) as usize, per negotiated rate and frame index
TargetIdxOf ==
    [rate \in Rates |->
        [i \in 0..MaxBatch |-> Trunc(FDiv(FromNat(i, F32), resample_ratio(rate), F32))]]
TargetIdx(i, rate) == TargetIdxOf[rate][i]

\* i.saturating_sub(1)
SaturatingSub1(i) == IF i = 0 THEN 0 ELSE i - 1

\* the condition under which the callback pushes frame i while resampling
PushWhenResampling(i, rate, buf) ==
    \/ TargetIdx(i, rate) >= Len(buf)
    \/ buf = <<>>
    \/ TargetIdx(i, rate) # TargetIdx(SaturatingSub1(i), rate)

\* fs::remove_file on the marker: removes it, or fails (a warning) when it is absent
RemovePidFile(f) == "absent"

\* the daemon makes no library call
NoCall == [fn |-> "none"]
NoReturn == [done |-> FALSE]
Returned(v) == [done |-> TRUE, value |-> v]

\* ------------------------------------------------------------------ Init
InitDaemon ==
    /\ pc = "write_pid_file"
    /\ sig = "none"
    /\ pending = {}
    /\ RECORDING = FALSE
    /\ STOP_REQUESTED = FALSE
    /\ SHUTDOWN = FALSE
    /\ audio_buffer = <<>>
    /\ lock = "free"
    /\ pid_file = "absent"
    /\ exit_code = -1
    /\ stream = "none"
    /\ sample_rate = 0
    /\ channels = 0
    /\ samples = <<>>
    /\ result = NoResult
    /\ text = <<>>
    /\ cb_pc = "idle"
    /\ data = <<>>
    /\ cb_i = 0
    /\ cb_base = 0
    /\ cb_late = FALSE
    /\ buffer_late = <<>>
    /\ samples_late = <<>>
    /\ outcome = "none"
    /\ cb_stale = FALSE

Init ==
    /\ InitDaemon
    /\ call = NoCall
    /\ ret = NoReturn


\* ------------------------------------------------------- startup (main)
\* std::process::exit(1) right after a failed write_pid_file: no cleanup call
ExitAfterPidError ==
    /\ pc' = "exited"
    /\ exit_code' = 1
    /\ UNCHANGED pid_file

\* the fatal branches that follow: remove_pid_file(); std::process::exit(1)
Fatal ==
    /\ pid_file' = RemovePidFile(pid_file)
    /\ exit_code' = 1
    /\ pc' = "exited"

\* write_pid_file: fs::File::create(&pid_path)?
WritePidCreate ==
    /\ pc = "write_pid_file"
    /\ \E ok \in BOOLEAN :
          IF ok THEN /\ pid_file' = "empty"
                     /\ pc' = "writeln"
                     /\ UNCHANGED exit_code
                ELSE ExitAfterPidError
    /\ UNCHANGED <<sig, pending, RECORDING, STOP_REQUESTED, SHUTDOWN, stream, sample_rate,
                   channels, samples, result, text, samples_late, outcome>>
    /\ UNCHANGED <<cb_vars, buf_vars>>
    /\ UNCHANGED <<cb_stale, lib_vars>>

\* write_pid_file: writeln!(file, "{}", std::process::id())?
WritePidWriteln ==
    /\ pc = "writeln"
    /\ \E ok \in BOOLEAN :
          IF ok THEN /\ pid_file' = "written"
                     /\ pc' = "load_model"
                     /\ UNCHANGED exit_code
                ELSE ExitAfterPidError
    /\ UNCHANGED <<sig, pending, RECORDING, STOP_REQUESTED, SHUTDOWN, stream, sample_rate,
                   channels, samples, result, text, samples_late, outcome>>
    /\ UNCHANGED <<cb_vars, buf_vars>>
    /\ UNCHANGED <<cb_stale, lib_vars>>

\* engine.load_model_with_params(..)
LoadModel ==
    /\ pc = "load_model"
    /\ \E ok \in BOOLEAN :
          IF ok THEN /\ pc' = "record_audio"
                     /\ UNCHANGED <<pid_file, exit_code>>
                ELSE Fatal
    /\ UNCHANGED <<sig, pending, RECORDING, STOP_REQUESTED, SHUTDOWN, stream, sample_rate,
                   channels, samples, result, text, samples_late, outcome>>
    /\ UNCHANGED <<cb_vars, buf_vars>>
    /\ UNCHANGED <<cb_stale, lib_vars>>

\* record_audio(Arc::clone(&audio_buffer)): a stream built for one negotiated
\* configuration, or an error (no device, no configuration, build failure)
RecordAudio ==
    /\ pc = "record_audio"
    /\ \/ \E cfg \in DeviceConfigs :
             /\ sample_rate' = cfg.rate
             /\ channels' = cfg.ch
             /\ stream' = "built"
             /\ pc' = "play"
             /\ UNCHANGED <<pid_file, exit_code>>
       \/ /\ Fatal
          /\ UNCHANGED <<sample_rate, channels, stream>>
    /\ UNCHANGED <<sig, pending, RECORDING, STOP_REQUESTED, SHUTDOWN,
                   samples, result, text, samples_late, outcome>>
    /\ UNCHANGED <<cb_vars, buf_vars>>
    /\ UNCHANGED <<cb_stale, lib_vars>>

\* stream.play(), then Signals::new([SIGUSR1, SIGUSR2, SIGTERM, SIGINT])
Play ==
    /\ pc = "play"
    /\ \/ /\ stream' = "playing"
          /\ pc' = "forever"
          /\ UNCHANGED <<pid_file, exit_code>>
       \/ /\ Fatal
          /\ stream' = "dropped"
    /\ UNCHANGED <<sig, pending, RECORDING, STOP_REQUESTED, SHUTDOWN, sample_rate,
                   channels, samples, result, text, samples_late, outcome>>
    /\ UNCHANGED <<cb_vars, buf_vars>>
    /\ UNCHANGED <<cb_stale, lib_vars>>


\* ------------------------------------------------- signal loop (main)
\* the kernel delivers a signal; signal-hook keeps one pending flag per signal
Deliver(s) ==
    /\ pc \notin {"write_pid_file", "writeln", "load_model", "record_audio", "play",
                  "drop", "remove_pid_file", "return", "exited"}
    /\ s \notin pending
    /\ Cardinality(pending) < MaxPending
    /\ pending' = pending \cup {s}
    /\ UNCHANGED <<ctl_vars, cb_vars, buf_vars>>
    /\ UNCHANGED <<cb_stale, lib_vars>>

\* the end of one iteration of `for sig in signals.forever()`
EndIteration(how) ==
    /\ pc' = "forever"
    /\ sig' = "none"
    /\ outcome' = how
    /\ samples' = <<>>
    /\ samples_late' = <<>>
    /\ result' = NoResult
    /\ text' = <<>>

\* variant: the start handler without its `if !RECORDING` test
HandleUSR1_Unchecked ==
    /\ pc' = "start_lock"
    /\ sig' = SIGUSR1
    /\ UNCHANGED <<samples, samples_late, result, text, outcome>>

\* SIGUSR1 => if !RECORDING.load(..) { .. }
HandleUSR1 ==
    IF ~RECORDING
    THEN /\ pc' = "start_lock"
         /\ sig' = SIGUSR1
         /\ UNCHANGED <<samples, samples_late, result, text, outcome>>
    ELSE EndIteration("ignored")

\* variant: a start-signal is taken up while the engine call is in flight
ConsumeUSR1_DuringCall ==
    /\ pc \in {"forever", "transcribe"}
    /\ SIGUSR1 \in pending
    /\ pending' = pending \ {SIGUSR1}
    /\ HandleUSR1
    /\ UNCHANGED <<RECORDING, STOP_REQUESTED, SHUTDOWN, pid_file, exit_code, stream,
                   sample_rate, channels>>
    /\ UNCHANGED <<cb_vars, buf_vars>>
    /\ UNCHANGED <<cb_stale, lib_vars>>

ConsumeUSR1 ==
    /\ pc = "forever"
    /\ SIGUSR1 \in pending
    /\ pending' = pending \ {SIGUSR1}
    /\ HandleUSR1
    /\ UNCHANGED <<RECORDING, STOP_REQUESTED, SHUTDOWN, pid_file, exit_code, stream,
                   sample_rate, channels>>
    /\ UNCHANGED <<cb_vars, buf_vars>>
    /\ UNCHANGED <<cb_stale, lib_vars>>

\* audio_buffer.lock().unwrap()
StartLock ==
    /\ pc = "start_lock"
    /\ lock = "free"
    /\ lock' = "main"
    /\ pc' = "start_clear"
    /\ UNCHANGED <<sig, pending, RECORDING, STOP_REQUESTED, SHUTDOWN, pid_file, exit_code,
                   stream, sample_rate, channels, samples, result, text, samples_late, outcome>>
    /\ UNCHANGED <<cb_vars, audio_buffer, buffer_late>>
    /\ UNCHANGED <<cb_stale, lib_vars>>

\* .clear(), and the temporary guard is dropped
StartClear ==
    /\ pc = "start_clear"
    /\ audio_buffer' = <<>>
    /\ buffer_late' = <<>>
    /\ lock' = "free"
    /\ pc' = "start_store"
    /\ UNCHANGED <<sig, pending, RECORDING, STOP_REQUESTED, SHUTDOWN, pid_file, exit_code,
                   stream, sample_rate, channels, samples, result, text, samples_late, outcome>>
    /\ UNCHANGED cb_vars
    /\ cb_stale' = (cb_pc = "lock")
    /\ UNCHANGED lib_vars

\* STOP_REQUESTED.store(false); RECORDING.store(true)
StartStore ==
    /\ pc = "start_store"
    /\ STOP_REQUESTED' = FALSE
    /\ RECORDING' = TRUE
    /\ EndIteration("started")
    /\ UNCHANGED <<pending, SHUTDOWN, pid_file, exit_code, stream, sample_rate, channels>>
    /\ UNCHANGED <<cb_vars, buf_vars>>
    /\ UNCHANGED <<cb_stale, lib_vars>>

\* variant: the stop handler toggles the flag, raising it when it finds it lowered
HandleUSR2_Toggle ==
    IF RECORDING
    THEN /\ RECORDING' = FALSE
         /\ STOP_REQUESTED' = TRUE
         /\ pc' = "sleep"
         /\ sig' = SIGUSR2
         /\ UNCHANGED <<samples, samples_late, result, text, outcome>>
    ELSE /\ EndIteration("ignored")
         /\ RECORDING' = TRUE
         /\ UNCHANGED STOP_REQUESTED

\* variant: the stop handler goes on to the snapshot with the flag still raised
HandleUSR2_FlagKept ==
    IF RECORDING
    THEN /\ STOP_REQUESTED' = TRUE
         /\ pc' = "sleep"
         /\ sig' = SIGUSR2
         /\ UNCHANGED <<RECORDING, samples, samples_late, result, text, outcome>>
    ELSE /\ EndIteration("ignored")
         /\ UNCHANGED <<RECORDING, STOP_REQUESTED>>

\* SIGUSR2 => if RECORDING.load(..) { RECORDING.store(false); STOP_REQUESTED.store(true); ..
HandleUSR2 ==
    IF RECORDING
    THEN /\ RECORDING' = FALSE
         /\ STOP_REQUESTED' = TRUE
         /\ pc' = "sleep"
         /\ sig' = SIGUSR2
         /\ UNCHANGED <<samples, samples_late, result, text, outcome>>
    ELSE /\ EndIteration("ignored")
         /\ UNCHANGED <<RECORDING, STOP_REQUESTED>>

ConsumeUSR2 ==
    /\ pc = "forever"
    /\ SIGUSR2 \in pending
    /\ pending' = pending \ {SIGUSR2}
    /\ HandleUSR2
    /\ UNCHANGED <<SHUTDOWN, pid_file, exit_code, stream, sample_rate, channels>>
    /\ UNCHANGED <<cb_vars, buf_vars>>
    /\ UNCHANGED <<cb_stale, lib_vars>>

\* thread::sleep(Duration::from_millis(50))
Sleep ==
    /\ pc = "sleep"
    /\ pc' = "stop_lock"
    /\ UNCHANGED <<sig, pending, RECORDING, STOP_REQUESTED, SHUTDOWN, pid_file, exit_code,
                   stream, sample_rate, channels, samples, result, text, samples_late, outcome>>
    /\ UNCHANGED <<cb_vars, buf_vars>>
    /\ UNCHANGED <<cb_stale, lib_vars>>

\* variant: the snapshot is taken without waiting for the mutex
StopLock_NoWait ==
    /\ pc = "stop_lock"
    /\ lock' = "main"
    /\ pc' = "stop_clone"
    /\ UNCHANGED <<sig, pending, RECORDING, STOP_REQUESTED, SHUTDOWN, pid_file, exit_code,
                   stream, sample_rate, channels, samples, result, text, samples_late, outcome>>
    /\ UNCHANGED <<cb_vars, audio_buffer, buffer_late>>
    /\ UNCHANGED <<cb_stale, lib_vars>>

\* let buf = audio_buffer.lock().unwrap()
StopLock ==
    /\ pc = "stop_lock"
    /\ lock = "free"
    /\ lock' = "main"
    /\ pc' = "stop_clone"
    /\ UNCHANGED <<sig, pending, RECORDING, STOP_REQUESTED, SHUTDOWN, pid_file, exit_code,
                   stream, sample_rate, channels, samples, result, text, samples_late, outcome>>
    /\ UNCHANGED <<cb_vars, audio_buffer, buffer_late>>
    /\ UNCHANGED <<cb_stale, lib_vars>>

\* variant: the stop transition without its `samples.is_empty()` test
AfterClone_NoEmptyTest(snapshot, late) ==
    /\ samples' = snapshot
    /\ samples_late' = late
    /\ pc' = "transcribe"
    /\ UNCHANGED <<sig, result, text, outcome>>

\* if samples.is_empty() { warn!(..); continue; } and, otherwise, the call of
\* engine.transcribe_samples(samples, None)
AfterClone(snapshot, late) ==
    IF snapshot = <<>>
    THEN EndIteration("no_audio")
    ELSE /\ samples' = snapshot
         /\ samples_late' = late
         /\ pc' = "transcribe"
         /\ UNCHANGED <<sig, result, text, outcome>>

\* variant: the guard of the clone lives on into the engine call
StopClone_LockKept ==
    /\ pc = "stop_clone"
    /\ AfterClone(audio_buffer, buffer_late)
    /\ cb_late' = (cb_late \/ cb_pc = "lock")
    /\ UNCHANGED <<pending, RECORDING, STOP_REQUESTED, SHUTDOWN, pid_file, exit_code,
                   stream, sample_rate, channels>>
    /\ UNCHANGED <<cb_pc, data, cb_i, cb_base, buf_vars>>
    /\ UNCHANGED <<cb_stale, lib_vars>>

\* buf.clone(), and the guard is dropped at the end of the block
StopClone ==
    /\ pc = "stop_clone"
    /\ lock' = "free"
    /\ AfterClone(audio_buffer, buffer_late)
    /\ cb_late' = (cb_late \/ cb_pc = "lock")
    /\ UNCHANGED <<pending, RECORDING, STOP_REQUESTED, SHUTDOWN, pid_file, exit_code,
                   stream, sample_rate, channels>>
    /\ UNCHANGED <<cb_pc, data, cb_i, cb_base, audio_buffer, buffer_late>>
    /\ UNCHANGED <<cb_stale, lib_vars>>

\* engine.transcribe_samples returns
TranscribeReturn ==
    /\ pc = "transcribe"
    /\ \E r \in EngineResults : result' = r
    /\ pc' = "match"
    /\ UNCHANGED <<sig, pending, RECORDING, STOP_REQUESTED, SHUTDOWN, pid_file, exit_code,
                   stream, sample_rate, channels, samples, text, samples_late, outcome>>
    /\ UNCHANGED <<cb_vars, buf_vars>>
    /\ UNCHANGED <<cb_stale, lib_vars>>

\* variant: a failed transcription is tried again
MatchResult_Retry(r) ==
    IF r.ok
    THEN IF Trim(r.text) # <<>>
         THEN /\ text' = Trim(r.text)
              /\ pc' = "type_text"
              /\ UNCHANGED <<sig, samples, samples_late, result, outcome>>
         ELSE EndIteration("empty_text")
    ELSE /\ pc' = "transcribe"
         /\ UNCHANGED <<sig, samples, samples_late, result, text, outcome>>

\* match .. { Ok(result) => { let text = result.text.trim(); if !text.is_empty() {
\* type_text(text) } else { warn } }  Err(e) => error!(..) }
MatchResult(r) ==
    IF r.ok
    THEN IF Trim(r.text) # <<>>
         THEN /\ text' = Trim(r.text)
              /\ pc' = "type_text"
              /\ UNCHANGED <<sig, samples, samples_late, result, outcome>>
         ELSE EndIteration("empty_text")
    ELSE EndIteration("transcribe_failed")

Match ==
    /\ pc = "match"
    /\ MatchResult(result)
    /\ UNCHANGED <<pending, RECORDING, STOP_REQUESTED, SHUTDOWN, pid_file, exit_code,
                   stream, sample_rate, channels>>
    /\ UNCHANGED <<cb_vars, buf_vars>>
    /\ UNCHANGED <<cb_stale, lib_vars>>

\* type_text: if text.trim().is_empty() { return; }  Command::new("ydotool")..status()
TypeTextGuard(t) ==
    IF Trim(t) = <<>>
    THEN EndIteration("skipped")
    ELSE /\ pc' = "ydotool"
         /\ UNCHANGED <<sig, samples, samples_late, result, text, outcome>>

TypeText ==
    /\ pc = "type_text"
    /\ TypeTextGuard(text)
    /\ UNCHANGED <<pending, RECORDING, STOP_REQUESTED, SHUTDOWN, pid_file, exit_code,
                   stream, sample_rate, channels>>
    /\ UNCHANGED <<cb_vars, buf_vars>>
    /\ UNCHANGED <<cb_stale, lib_vars>>

\* match result { Ok(success) => debug, Ok(status) => warn, Err(e) => error }
AfterYdotool(st) ==
    EndIteration(IF st = "success" THEN "typed" ELSE "inject_failed")

YdotoolReturn ==
    /\ pc = "ydotool"
    /\ \E st \in YdotoolResults : AfterYdotool(st)
    /\ UNCHANGED <<pending, RECORDING, STOP_REQUESTED, SHUTDOWN, pid_file, exit_code,
                   stream, sample_rate, channels>>
    /\ UNCHANGED <<cb_vars, buf_vars>>
    /\ UNCHANGED <<cb_stale, lib_vars>>

\* variant: the loop is left without the stream being dropped
HandleTerminate_NoDrop(s) ==
    /\ SHUTDOWN' = TRUE
    /\ sig' = s
    /\ pc' = "remove_pid_file"

\* variant: the terminate arm without its break
HandleTerminate_NoBreak(s) ==
    /\ SHUTDOWN' = TRUE
    /\ sig' = s
    /\ pc' = "forever"

\* SIGTERM | SIGINT => { SHUTDOWN.store(true); break; }
HandleTerminate(s) ==
    /\ SHUTDOWN' = TRUE
    /\ sig' = s
    /\ pc' = "drop"

ConsumeTerminate ==
    /\ pc = "forever"
    /\ \E s \in {SIGTERM, SIGINT} :
          /\ s \in pending
          /\ pending' = pending \ {s}
          /\ HandleTerminate(s)
    /\ UNCHANGED <<RECORDING, STOP_REQUESTED, pid_file, exit_code, stream, sample_rate,
                   channels, samples, result, text, samples_late, outcome>>
    /\ UNCHANGED <<cb_vars, buf_vars>>
    /\ UNCHANGED <<cb_stale, lib_vars>>

\* ------------------------------------------------------ shutdown (main)
\* drop(stream): the stream's worker thread is told to stop and joined, so the
\* drop returns only once no callback is running
DropStream ==
    /\ pc = "drop"
    /\ cb_pc = "idle"
    /\ stream' = "dropped"
    /\ pc' = "remove_pid_file"
    /\ UNCHANGED <<sig, pending, RECORDING, STOP_REQUESTED, SHUTDOWN, pid_file, exit_code,
                   sample_rate, channels, samples, result, text, samples_late, outcome>>
    /\ UNCHANGED <<cb_vars, buf_vars>>
    /\ UNCHANGED <<cb_stale, lib_vars>>

\* remove_pid_file()
RemovePid ==
    /\ pc = "remove_pid_file"
    /\ pid_file' = RemovePidFile(pid_file)
    /\ pc' = "return"
    /\ UNCHANGED <<sig, pending, RECORDING, STOP_REQUESTED, SHUTDOWN, exit_code, stream,
                   sample_rate, channels, samples, result, text, samples_late, outcome>>
    /\ UNCHANGED <<cb_vars, buf_vars>>
    /\ UNCHANGED <<cb_stale, lib_vars>>

\* info!("Goodbye!") and main returns
Return ==
    /\ pc = "return"
    /\ pc' = "exited"
    /\ exit_code' = 0
    /\ UNCHANGED <<sig, pending, RECORDING, STOP_REQUESTED, SHUTDOWN, pid_file, stream,
                   sample_rate, channels, samples, result, text, samples_late, outcome>>
    /\ UNCHANGED <<cb_vars, buf_vars>>
    /\ UNCHANGED <<cb_stale, lib_vars>>

\* ------------------------------------------------------ audio callback
\* the audio subsystem calls the closure with one batch
CbInvoke ==
    /\ stream = "playing"
    /\ cb_pc = "idle"
    /\ \E d \in Batches(channels) :
          /\ Len(audio_buffer) + NumChunks(d, channels) <= MaxBuf
          /\ data' = d
    /\ cb_pc' = "load"
    /\ UNCHANGED <<cb_i, cb_base, cb_late>>
    /\ UNCHANGED <<pending, ctl_vars, buf_vars>>
    /\ UNCHANGED <<cb_stale, lib_vars>>

\* variant: the callback without its fast-reject test
LoadFlag_Ignored(flag) ==
    /\ cb_pc' = "lock"
    /\ UNCHANGED data

\* if RECORDING.load(Ordering::SeqCst) { .. } and nothing else
LoadFlag(flag) ==
    IF flag
    THEN /\ cb_pc' = "lock"
         /\ UNCHANGED data
    ELSE /\ cb_pc' = "idle"
         /\ data' = <<>>

CbLoad ==
    /\ cb_pc = "load"
    /\ LoadFlag(RECORDING)
    /\ UNCHANGED <<cb_i, cb_base, cb_late>>
    /\ UNCHANGED <<pending, ctl_vars, buf_vars>>
    /\ UNCHANGED <<cb_stale, lib_vars>>

\* let mut buf = buffer.lock().unwrap()
CbLock ==
    /\ cb_pc = "lock"
    /\ lock = "free"
    /\ lock' = "callback"
    /\ cb_pc' = "append"
    /\ cb_i' = 0
    /\ cb_base' = Len(audio_buffer)
    /\ UNCHANGED <<data, cb_late, audio_buffer, buffer_late>>
    /\ UNCHANGED <<pending, ctl_vars>>
    /\ UNCHANGED <<cb_stale, lib_vars>>

\* whether the loop body pushes the sample of frame i
Pushes(i, rate, buf) ==
    IF NeedsResample(rate) THEN PushWhenResampling(i, rate, buf) ELSE TRUE

\* one iteration of for (i, chunk) in data.chunks(channels).enumerate()
CbFrame ==
    /\ cb_pc = "append"
    /\ cb_i < NumChunks(data, channels)
    /\ LET sample == Downmix(Chunk(data, channels, cb_i), channels)
       IN  IF Pushes(cb_i, sample_rate, audio_buffer)
           THEN /\ audio_buffer' = Append(audio_buffer, sample)
                /\ buffer_late' = Append(buffer_late, cb_late)
           ELSE UNCHANGED <<audio_buffer, buffer_late>>
    /\ cb_i' = cb_i + 1
    /\ UNCHANGED <<cb_pc, data, cb_base, cb_late, lock>>
    /\ UNCHANGED <<pending, ctl_vars>>
    /\ UNCHANGED <<cb_stale, lib_vars>>

\* the guard goes out of scope at the end of the if block
CbUnlock ==
    /\ cb_pc = "append"
    /\ cb_i = NumChunks(data, channels)
    /\ lock' = "free"
    /\ cb_pc' = "idle"
    /\ data' = <<>>
    /\ cb_i' = 0
    /\ cb_base' = 0
    /\ cb_late' = FALSE
    /\ UNCHANGED <<audio_buffer, buffer_late>>
    /\ UNCHANGED <<pending, ctl_vars>>
    /\ cb_stale' = FALSE
    /\ UNCHANGED lib_vars

\* ------------------------------------------------------- specification
Next ==
    \/ WritePidCreate
    \/ WritePidWriteln
    \/ LoadModel
    \/ RecordAudio
    \/ Play
    \/ \E s \in Signals : Deliver(s)
    \/ ConsumeUSR1
    \/ StartLock
    \/ StartClear
    \/ StartStore
    \/ ConsumeUSR2
    \/ Sleep
    \/ StopLock
    \/ StopClone
    \/ TranscribeReturn
    \/ Match
    \/ TypeText
    \/ YdotoolReturn
    \/ ConsumeTerminate
    \/ DropStream
    \/ RemovePid
    \/ Return
    \/ CbInvoke
    \/ CbLoad
    \/ CbLock
    \/ CbFrame
    \/ CbUnlock

Spec == Init /\ [][Next]_vars

\* ------------------------------------------------------------ scheduling
\* the statements of main that wait for nothing but the processor
MainRuns ==
    \/ ConsumeUSR1 \/ StartClear \/ StartStore
    \/ ConsumeUSR2 \/ Sleep \/ StopClone \/ Match \/ TypeText
    \/ RemovePid \/ Return

\* audio_buffer.lock() in main: the callback gives the mutex back after every batch
MainLocks == StartLock \/ StopLock

\* the callback thread runs its closure to the end
CallbackRuns == CbLoad \/ CbLock \/ CbFrame \/ CbUnlock

\* engine.transcribe_samples and the ydotool subprocess return
CallsReturn == TranscribeReturn \/ YdotoolReturn

\* both threads are scheduled, a mutex that is free again and again is won,
\* signals.forever() yields a terminate-signal that stays pending whenever the
\* loop comes back to it, drop(stream) joins the callback in flight, and the
\* external calls return
Fairness ==
    /\ WF_vars(MainRuns)
    /\ SF_vars(MainLocks)
    /\ SF_vars(ConsumeTerminate)
    /\ SF_vars(DropStream)
    /\ WF_vars(CallbackRuns)
    /\ WF_vars(CallsReturn)

FairSpec == Spec /\ Fairness

\* ------------------------------------------------------ library calls
\* samples of a call: 1, 2, .. so that every input index is told apart from the
\* others and from the 0 of unwrap_or
Ramp(n) == [j \in 1..n |-> j]

\* rate pairs of resample calls: audio rates, and small odd rates
AudioRates == {8000, 16000, 48000}
OddRates == {7, 17}
RatePairs == (AudioRates \X AudioRates) \cup (OddRates \X OddRates)
ResampleCalls ==
    { [fn |-> "resample", samples |-> Ramp(n), source_rate |-> p[1], target_rate |-> p[2]] :
          n \in 0..MaxSamples, p \in RatePairs }

\* samples of a to_mono call: multiples of 1 * 2 * .. * MaxChannels
RECURSIVE Factorial(_)
Factorial(n) == IF n = 0 THEN 1 ELSE n * Factorial(n - 1)
ToMonoCalls ==
    { [fn |-> "to_mono", samples |-> [j \in 1..n |-> j * Factorial(MaxChannels)], channels |-> ch] :
          n \in 0..MaxSamples, ch \in 1..MaxChannels }

\* source rates of needs_resample calls, against the target rate
SourceRates == {8000, 15983, 15984, 16000, 16001, 16015, 16016, 16017, 22050, 44100, 48000}
NeedsResampleCalls ==
    { [fn |-> "needs_resample", source_rate |-> r, target_rate |-> SAMPLE_RATE] : r \in SourceRates }

\* configuration lists of negotiation calls: none, one or two configurations, the
\* rate ranges below, on and above the target rate and up to the largest u32
RateRanges ==
    { <<U32(8000), U32(8000)>>, <<U32(8000), U32(48000)>>, <<U32(44100), U32(44100)>>,
      <<U32(48000), U32(48000)>>, <<U32(44100), U32Max>> }
SupportedConfigs ==
    { Config(f, r[1], r[2], ch) : f \in {"F32", "I16"}, r \in RateRanges, ch \in {1, 2} }
NegotiateCalls ==
    { [fn |-> "negotiate", supported_configs |-> l] :
          l \in {<<>>} \cup { <<a>> : a \in SupportedConfigs }
                      \cup { <<a, b>> : a \in SupportedConfigs, b \in SupportedConfigs } }

LibCalls == ResampleCalls \cup ToMonoCalls \cup NeedsResampleCalls \cup NegotiateCalls

InitLib ==
    /\ InitDaemon
    /\ call \in LibCalls
    /\ ret = NoReturn

CallResample ==
    /\ call.fn = "resample"
    /\ ~ret.done
    /\ ret' = Returned(resample(call.samples, call.source_rate, call.target_rate))
    /\ UNCHANGED <<call, daemon_vars>>

CallToMono ==
    /\ call.fn = "to_mono"
    /\ ~ret.done
    /\ ret' = Returned(to_mono(call.samples, call.channels))
    /\ UNCHANGED <<call, daemon_vars>>

CallNeedsResample ==
    /\ call.fn = "needs_resample"
    /\ ~ret.done
    /\ ret' = Returned(needs_resample(call.source_rate, call.target_rate))
    /\ UNCHANGED <<call, daemon_vars>>

CallNegotiate ==
    /\ call.fn = "negotiate"
    /\ ~ret.done
    /\ ret' = Returned(Negotiate(call.supported_configs))
    /\ UNCHANGED <<call, daemon_vars>>

NextLib ==
    \/ CallResample
    \/ CallToMono
    \/ CallNeedsResample
    \/ CallNegotiate

SpecLib == InitLib /\ [][NextLib]_vars


\* ------------------------------------------------------------- claims
\* a step of main that takes signal s out of the pending set
Consumes(s) == pc = "forever" /\ s \in pending /\ s \notin pending'

\* C1: the recording flag starts lowered and changes only Idle -> Recording in
\* the handler of a start-signal consumed while Idle, and Recording -> Idle in the
\* step that consumes a stop-signal while Recording; no other step changes it.
C1_FlagTransitions ==
    /\ ~RECORDING
    /\ [][ RECORDING' # RECORDING =>
             \/ ~RECORDING /\ RECORDING' /\ pc = "start_store" /\ sig = SIGUSR1
             \/ RECORDING /\ ~RECORDING' /\ Consumes(SIGUSR2) ]_vars

\* a recording was started and then stopped
C1_Witness == ~RECORDING /\ STOP_REQUESTED /\ pc = "forever"

\* C2: a start-signal consumed while Recording leaves the flag raised and the
\* buffer as it is; a stop-signal consumed while Idle leaves the flag lowered,
\* takes no snapshot and calls neither the engine nor the injector: in both
\* cases the iteration ends in the same step.
C2_WrongStateNoOp ==
    [][ /\ (Consumes(SIGUSR1) /\ RECORDING) =>
              /\ RECORDING' /\ pc' = "forever"
              /\ UNCHANGED <<audio_buffer, lock, STOP_REQUESTED, samples, result, text>>
        /\ (Consumes(SIGUSR2) /\ ~RECORDING) =>
              /\ ~RECORDING' /\ pc' = "forever"
              /\ UNCHANGED <<audio_buffer, lock, STOP_REQUESTED, samples, result, text>>
      ]_vars

\* a start-signal was ignored while Recording, with samples in the buffer
C2_Witness ==
    pc = "forever" /\ outcome = "ignored" /\ RECORDING /\ audio_buffer # <<>>

\* C3: a callback invocation that loads the flag as not Recording returns at
\* once: it does not go on to the lock, and the buffer and the lock are unchanged.
C3_FastReject ==
    [][ (cb_pc = "load" /\ cb_pc' # "load" /\ ~RECORDING) =>
            /\ cb_pc' = "idle"
            /\ UNCHANGED <<audio_buffer, lock>> ]_vars

\* the callback is invoked during the drain sleep, the flag lowered and the
\* buffer holding the recording
C3_Witness == cb_pc = "load" /\ ~RECORDING /\ pc = "sleep" /\ audio_buffer # <<>>


\* the engine call is in flight, or its result is being handled
Dispatched == pc \in {"transcribe", "match", "type_text", "ydotool"}

\* C4: frames a callback appends after a stop has read its snapshot are in no
\* snapshot handed to the engine: not in that stop's, and not in a later stop's
\* (the callback that loaded the flag as Recording before the stop and appends
\* only after the next start included).
C4_LateFramesLost ==
    /\ [][ (Dispatched /\ audio_buffer' # audio_buffer) => samples' = samples ]_vars
    /\ [](Dispatched => \A k \in DOMAIN samples_late : ~samples_late[k])

\* C5: a stop whose snapshot is empty ends its iteration at once, Idle, with no
\* engine call: the engine is only ever called with a non-empty snapshot, and
\* the loop goes on (the process has not exited unless told to shut down).
C5_EmptySnapshotNoDispatch ==
    /\ [](Dispatched => samples # <<>>)
    /\ [](outcome = "no_audio" /\ pc = "exited" => SHUTDOWN)
    /\ [][ (pc = "stop_clone" /\ pc' # "stop_clone" /\ audio_buffer = <<>>) =>
              /\ pc' = "forever" /\ ~RECORDING' /\ outcome' = "no_audio" ]_vars

\* a stop found the buffer empty and the loop took up the next start-signal
C5_Witness == outcome = "no_audio" /\ pc = "start_store" /\ ~RECORDING

\* some character of t is not whitespace
NonBlank(t) == \E k \in DOMAIN t : t[k] \notin Whitespace

\* C6: whenever the injector subprocess runs, the engine had succeeded, and the
\* string it is given is non-empty and not whitespace only.
C6_InjectorOnlyNonBlank ==
    pc = "ydotool" => result.ok /\ NonBlank(result.text) /\ text # <<>> /\ NonBlank(text)

\* the injector runs on the trimmed form of a text that came with whitespace around it
C6_Witness == pc = "ydotool" /\ result.text = <<" ", "a", "\n">> /\ text = <<"a">>

\* C7: a process that ended with a non-zero status during startup has left no
\* marker file behind.
C7_NoStaleMarker == (pc = "exited" /\ exit_code # 0) => pid_file = "absent"


\* C8: once a terminate-signal is consumed (Idle or Recording) main only drops
\* the stream, removes the marker and returns, in that order: the marker is
\* still there until the stream is dropped, the process ends with status 0 and
\* no marker, no stop transition or engine call happens, and after the drop no
\* callback runs and the buffer no longer changes.
C8_GracefulShutdown ==
    /\ [](SHUTDOWN => pc \in {"drop", "remove_pid_file", "return", "exited"})
    /\ [](SHUTDOWN /\ stream # "dropped" => pc = "drop" /\ pid_file = "written")
    /\ [](SHUTDOWN /\ pc \in {"return", "exited"} => stream = "dropped" /\ pid_file = "absent")
    /\ [](SHUTDOWN /\ pc = "exited" => exit_code = 0)
    /\ [](stream = "dropped" => cb_pc = "idle" /\ lock = "free")
    /\ [][ stream = "dropped" => audio_buffer' = audio_buffer ]_vars

\* shut down while Recording, samples captured and never transcribed
C8_Witness ==
    pc = "exited" /\ exit_code = 0 /\ RECORDING /\ audio_buffer # <<>> /\ outcome = "started"

\* C9: a failed transcription and a failed injection end the iteration like a
\* successful one: back at the head of the loop, Idle, nothing called again; the
\* process does not exit because of them, and the loop takes up the next
\* start-signal.
C9_RecoverableErrors ==
    /\ [](outcome \in {"transcribe_failed", "inject_failed"} =>
            /\ pc = "exited" => SHUTDOWN /\ exit_code = 0
            /\ pc = "forever" => ~RECORDING /\ samples = <<>> /\ lock # "main")
    /\ [][ (pc = "match" /\ pc' # "match" /\ ~result.ok) =>
              /\ pc' = "forever" /\ ~RECORDING' /\ outcome' = "transcribe_failed" ]_vars
    /\ [][ (pc = "ydotool" /\ pc' # "ydotool") =>
              /\ pc' = "forever" /\ ~RECORDING'
              /\ outcome' \in {"typed", "inject_failed"} ]_vars

\* after a failed transcription the next start-signal is being handled: the
\* buffer is cleared and the flag is about to be raised
C9_Witness ==
    outcome = "transcribe_failed" /\ pc = "start_store" /\ sig = SIGUSR1 /\ audio_buffer = <<>>

\* frame i of a batch is the first of the batch with its target index
FirstOfTarget(i, rate) == i = 0 \/ TargetIdx(i, rate) # TargetIdx(i - 1, rate)

\* the downmixed frames among the first n of batch d that are the first with
\* their target index, in frame order
RECURSIVE OnePerTarget(_, _, _, _)
OnePerTarget(d, ch, rate, n) ==
    IF n = 0 THEN <<>>
    ELSE LET before == OnePerTarget(d, ch, rate, n - 1)
         IN  IF FirstOfTarget(n - 1, rate)
             THEN Append(before, Downmix(Chunk(d, ch, n - 1), ch))
             ELSE before

\* what the callback in flight has appended since it took the lock
AppendedByBatch == SubSeq(audio_buffer, cb_base + 1, Len(audio_buffer))

\* C10: while resampling, what a batch has appended so far is one sample for
\* each distinct target index among the frames looped over, in frame order,
\* whatever the buffer held when the batch began.
C10_OneSamplePerTargetIndex ==
    (cb_pc = "append" /\ NeedsResample(sample_rate)) =>
        AppendedByBatch = OnePerTarget(data, channels, sample_rate, cb_i)


\* C11: the buffer is only touched under its mutex and the mutex has one holder:
\* the callback holds it exactly while it loops over a batch, main exactly
\* between taking it and its clear or clone, so a clear or a clone never
\* happens while a batch is partly appended.
C11_MutualExclusion ==
    /\ lock \in {"free", "main", "callback"}
    /\ (lock = "callback") <=> (cb_pc = "append")
    /\ (lock = "main") <=> (pc \in {"start_clear", "stop_clone"})
    /\ pc \in {"start_clear", "stop_clone"} => cb_pc # "append"

\* main waits for the mutex at stop while the callback is in the middle of a batch
C11_Witness ==
    pc = "stop_lock" /\ cb_pc = "append" /\ cb_i > 0 /\ cb_i < NumChunks(data, channels)


\* ceil(n / d) of naturals
CeilDiv(n, d) == (n + d - 1) \div d

\* element i (from 0) of s, the 0.0 default past its end
SampleAt(s, i) == IF i < Len(s) THEN s[i + 1] ELSE 0

\* C12: for every sample sequence and pair of positive rates, resample returns
\* ceil(len * target / source) samples, the i-th being the input sample at index
\* floor(i * source / target); with equal rates it returns its input, and an
\* empty input gives an empty output.
C12_ResampleNearestNeighbour ==
    (call.fn = "resample" /\ ret.done) =>
        /\ Len(ret.value) = CeilDiv(Len(call.samples) * call.target_rate, call.source_rate)
        /\ \A i \in 0..(Len(ret.value) - 1) :
              ret.value[i + 1] =
                  SampleAt(call.samples, (i * call.source_rate) \div call.target_rate)
        /\ call.source_rate = call.target_rate => ret.value = call.samples
        /\ call.samples = <<>> => ret.value = <<>>

\* C13: for c >= 1 channels and an input whose length is a multiple of c, to_mono
\* returns len / c samples, the k-th being the mean of the c values of frame k;
\* for c = 1 it returns its input, and an empty input gives an empty output.
C13_ToMonoMeans ==
    (call.fn = "to_mono" /\ ret.done /\ Len(call.samples) % call.channels = 0) =>
        /\ Len(ret.value) = Len(call.samples) \div call.channels
        /\ \A k \in 1..Len(ret.value) :
              ret.value[k] * call.channels =
                  Sum(SubSeq(call.samples, (k - 1) * call.channels + 1, k * call.channels))
        /\ call.channels = 1 => ret.value = call.samples
        /\ call.samples = <<>> => ret.value = <<>>

C13_Witness ==
    /\ call.fn = "to_mono"
    /\ ret.done
    /\ call.channels = 2
    /\ Len(call.samples) = 4
    /\ Len(ret.value) = 2

\* C14: needs_resample is true exactly when |source / target - 1| > 0.001, so it
\* is false for equal rates, 16001, 16015 and the boundary 16016 against 16000,
\* and true for 16017, 22050, 44100, 48000 and 8000.
C14_NeedsResampleTolerance ==
    (call.fn = "needs_resample" /\ ret.done) =>
        LET diff == IF call.source_rate < call.target_rate
                    THEN call.target_rate - call.source_rate
                    ELSE call.source_rate - call.target_rate
        IN  ret.value = (diff * 1000 > call.target_rate)

\* the statements of a stop transition, after the flag is lowered
StopSteps == {"sleep", "stop_lock", "stop_clone", "transcribe", "match", "type_text", "ydotool"}

\* main moves from statement a to another statement
Leaves(a) == pc = a /\ pc' # a

\* C15: a stop transition performed while Recording lowers the flag, then waits
\* the drain interval, then clones the buffer under the lock, then calls the
\* engine only if the clone is non-empty, then calls the injector only on
\* success with non-blank text; the flag is lowered during every one of these
\* steps (so during every engine call), and the clone stays as it was taken
\* while later appends change the buffer.
C15_StopOrder ==
    /\ [](pc \in StopSteps => ~RECORDING /\ sig = SIGUSR2)
    /\ [](pc = "stop_clone" => lock = "main")
    /\ [](Dispatched => samples # <<>>)
    /\ [](pc \in {"type_text", "ydotool"} => result.ok /\ NonBlank(text))
    /\ [][ (Consumes(SIGUSR2) /\ RECORDING) => ~RECORDING' /\ pc' = "sleep" ]_vars
    /\ [][ (pc' = "sleep" /\ pc # "sleep") => Consumes(SIGUSR2) /\ RECORDING ]_vars
    /\ [][ Leaves("sleep") => pc' = "stop_lock" ]_vars
    /\ [][ Leaves("stop_lock") => pc' = "stop_clone" ]_vars
    /\ [][ Leaves("stop_clone") =>
              IF audio_buffer # <<>>
              THEN pc' = "transcribe" /\ samples' = audio_buffer
              ELSE pc' = "forever" ]_vars
    /\ [][ Leaves("transcribe") => pc' = "match" ]_vars
    /\ [][ Leaves("match") =>
              IF result.ok /\ NonBlank(result.text)
              THEN pc' = "type_text"
              ELSE pc' = "forever" ]_vars
    /\ [][ Leaves("type_text") => pc' = "ydotool" ]_vars
    /\ [][ Leaves("ydotool") => pc' = "forever" ]_vars
    /\ [][ (Dispatched /\ Dispatched') => samples' = samples ]_vars

\* the injector runs, the flag lowered, on a snapshot that a later append to the
\* buffer has left as it was
C15_Witness ==
    /\ pc = "ydotool" /\ ~RECORDING
    /\ Len(audio_buffer) > Len(samples)
    /\ samples = SubSeq(audio_buffer, 1, Len(samples))

\* C16: on a start-signal consumed while Idle main clears the buffer and only
\* then raises the flag, and in the step that raises the flag the buffer is
\* empty, whatever the callback does in between.
C16_EmptyWhenRaised ==
    /\ [][ Leaves("start_clear") => pc' = "start_store" /\ audio_buffer' = <<>> ]_vars
    /\ [][ (~RECORDING /\ RECORDING') => pc = "start_store" /\ audio_buffer' = <<>> ]_vars

\* C17: main holds the buffer mutex only at the clear of a start and at the
\* clone of a stop, never while the engine or the injector is called, so a
\* callback that asks for the mutex during such a call finds it free.
C17_LockScope ==
    /\ Dispatched => lock # "main"
    /\ lock = "main" => pc \in {"start_clear", "stop_clone"}
    /\ (Dispatched /\ cb_pc = "lock") => lock = "free"

\* the callback holds the mutex while the engine call is in flight
C17_Witness == pc = "transcribe" /\ lock = "callback" /\ cb_pc = "append"

\* C18: main takes a signal out of the pending set only at the head of its
\* loop, so while an engine or injector call is in flight no signal is consumed,
\* no start or stop transition begins, the flag stays lowered, and a
\* start-signal delivered during the call is still pending when the call returns.
C18_OneSignalAtATime ==
    /\ [](Dispatched => ~RECORDING)
    /\ [][ (\E s \in pending : s \notin pending') => pc = "forever" ]_vars
    /\ [][ Dispatched => /\ pending \subseteq pending'
                         /\ RECORDING' = RECORDING
                         /\ pc' \in {pc, "match", "type_text", "ydotool", "forever"} ]_vars
    /\ [][ (pc' = "start_lock" /\ pc # "start_lock") => Consumes(SIGUSR1) ]_vars
    /\ [][ (pc' = "sleep" /\ pc # "sleep") => Consumes(SIGUSR2) ]_vars

\* a start-signal is pending while the engine call is in flight
C18_Witness == pc = "transcribe" /\ SIGUSR1 \in pending /\ ~RECORDING

\* the downmixed frames of the first n frames of batch d
MonoPrefix(d, ch, n) == [k \in 1..n |-> Downmix(Chunk(d, ch, k - 1), ch)]

\* the buffer changes only by a clear or by the sample of the frame the callback
\* is at being put at its end
C19_AppendsInOrder ==
    [][ audio_buffer' # audio_buffer =>
           \/ pc = "start_clear" /\ audio_buffer' = <<>>
           \/ /\ cb_pc = "append"
              /\ audio_buffer' =
                    Append(audio_buffer, Downmix(Chunk(data, channels, cb_i), channels)) ]_vars

\* without resampling a batch has appended every frame looped over so far
C19_EveryFrame ==
    (cb_pc = "append" /\ ~NeedsResample(sample_rate)) =>
        AppendedByBatch = MonoPrefix(data, channels, cb_i)

\* C19: the buffer holds, in arrival order and without duplicates, only frames
\* of batches delivered since the last clear: it changes only by a clear or by
\* one append of the current frame, without resampling a batch appends every
\* one of its frames, and a batch whose callback tested the flag before the
\* last clear contributes nothing to the buffer.
C19_BufferIsArrivalOrder ==
    /\ C19_AppendsInOrder
    /\ []C19_EveryFrame
    /\ [](cb_stale => AppendedByBatch = <<>>)

\* |16000 - rate| as a u32
Distance(rate) ==
    LET t == U32(SAMPLE_RATE)
    IN  IF U32Less(rate, t) THEN U32(SAMPLE_RATE - U32Val(rate))
        ELSE IF rate.lo >= t.lo THEN [hi |-> rate.hi - t.hi, lo |-> rate.lo - t.lo]
        ELSE [hi |-> rate.hi - t.hi - 1, lo |-> rate.lo + 2^16 - t.lo]

\* C20: negotiation looks at the floating-point configurations only and fails
\* when there is none; when some of them has 16000 in its range it chooses such
\* a one, with rate 16000 and no resampling; otherwise it chooses one whose
\* max rate is nearest to 16000, with that max rate as the rate.
C20_FormatNegotiation ==
    (call.fn = "negotiate" /\ ret.done) =>
        LET floats == SelectSeq(call.supported_configs, IsF32)
            v == ret.value
        IN  IF floats = <<>> THEN ~v.ok
            ELSE /\ v.ok
                 /\ \E k \in DOMAIN floats : floats[k] = v.config
                 /\ IF \E k \in DOMAIN floats : InRange(floats[k])
                    THEN /\ InRange(v.config)
                         /\ v.sample_rate = U32(SAMPLE_RATE)
                         /\ ~v.needs_resample
                    ELSE /\ \A k \in DOMAIN floats :
                               U32Leq(Distance(v.config.max), Distance(floats[k].max))
                         /\ v.sample_rate = v.config.max

\* the samples of s, as a set
Elements(s) == { s[k] : k \in DOMAIN s }

\* C22: for a non-empty input and positive rates, every index
\* floor(i * source / target) with i below the length of the output is an index
\* of the input, and every output sample is a sample of the input: the 0.0
\* default is never returned.
C22_ResampleIndexInRange ==
    (call.fn = "resample" /\ ret.done /\ call.samples # <<>>) =>
        \A i \in 0..(Len(ret.value) - 1) :
            /\ (i * call.source_rate) \div call.target_rate < Len(call.samples)
            /\ ret.value[i + 1] \in Elements(call.samples)

TerminateSignals == {SIGTERM, SIGINT}

====
